---- MODULE Spec2Model ----
(***************************************************************************)
(* Model of the journal-prompts drip-email engine:                         *)
(*   src/book-email-automation.js  class BookEmailAutomation               *)
(*   src/api/subscribe.js          serverless POST /subscribe handler      *)
(*   src/api/stats.js              Express server (/subscribe, /test-email)*)
(*                                                                         *)
(* Time is in milliseconds, as Date.now() gives it.  A JavaScript string   *)
(* is a sequence of one-character strings; a value that may be undefined   *)
(* is a record [def, s].  An `await` is a suspension point: the code up to *)
(* an await is one step, the code after it is the next step of that call;  *)
(* what the event loop runs in between is any other step of the model.     *)
(***************************************************************************)
EXTENDS Integers, Sequences, FiniteSets, TLC

\* ---------------------------------------------------------------- bounds
MaxTicks       == 2   \* invocations of processAutomationQueue in flight at once
\* Spec: one subscriber followed through the whole sequence
MaxSubscribers == 1   \* successful subscribe calls
MaxDays        == 5   \* the clock is advanced by at most this many days
MaxSeconds     == 1   \* ... and by at most this many single seconds
MaxStarts      == 1   \* calls of start()
\* SpecPair: several subscribe calls on every entry point, followed up to
\* the first follow-up
PairSubscribers == 2
PairDays        == 1
PairSeconds     == 0
PairStarts      == 1

\* bounds of SpecFail (a transport that may reject)
FailCalls   == 1   \* calls of subscribe, returning or throwing
FailDays    == 2
FailSeconds == 0
FailStarts  == 1
FailSends   == 2   \* sendEmail invocations per queue item

\* bounds of SpecLoop (start and stop called repeatedly)
LoopSubscribers == 1
LoopDays        == 1
LoopSeconds     == 0
LoopStarts      == 2

\* bounds of SpecHttp (requests of any method on both servers)
HttpSubscribers == 1
HttpDays        == 2
HttpSeconds     == 0
HttpStarts      == 1

\* bounds of SpecRegex (the email check on every string up to a length)
RegexLen         == 5
RegexSubscribers == 1
RegexDays        == 1
RegexSeconds     == 0
RegexStarts      == 1

\* bounds of SpecLive (the loop under fair scheduling)
LiveSubscribers == 1
LiveDays        == 2
LiveSeconds     == 0
LiveStarts      == 1
LiveFails       == 1   \* rejected sends per queue item

\* bounds of SpecOrder (two subscribers, several items due in one tick)
OrderSubscribers == 2
OrderDays        == 2
OrderSeconds     == 0
OrderStarts      == 1
OrderFails       == 1   \* rejected sends per queue item

Second == 1000
Day    == 24 * 60 * 60 * 1000

NoTime == -1          \* a field that holds no Date (undefined)

\* ------------------------------------------------------------ JS values
Undefined == [def |-> FALSE, s |-> <<>>]
Str(s)    == [def |-> TRUE, s |-> s]

\* !v for a value that is a string or undefined
Falsy(v) == (~v.def) \/ v.s = <<>>

WhiteSpace == {" ", "\t", "\n", "\r"}

\* every character of s[lo..hi] matches [^\s@]
PlainRun(s, lo, hi) == \A k \in lo..hi : s[k] \notin (WhiteSpace \cup {"@"})

\* a pattern whose last part may be empty: /^[^\s@]+@[^\s@]+\.[^\s@]*$/
emailRegexDotLast(s) ==
    \E i \in 2..Len(s) : \E j \in (i + 2)..Len(s) :
        /\ s[i] = "@"
        /\ s[j] = "."
        /\ PlainRun(s, 1, i - 1)
        /\ PlainRun(s, i + 1, j - 1)
        /\ PlainRun(s, j + 1, Len(s))

\* /^[^\s@]+@[^\s@]+\.[^\s@]+$/.test(s)
emailRegexTest(s) ==
    \E i \in 2..Len(s) : \E j \in (i + 2)..(Len(s) - 1) :
        /\ s[i] = "@"
        /\ s[j] = "."
        /\ PlainRun(s, 1, i - 1)
        /\ PlainRun(s, i + 1, j - 1)
        /\ PlainRun(s, j + 1, Len(s))

\* the defaults of the /test-email body
TestEmailDefault ==
    <<"t","e","s","t","@","e","x","a","m","p","l","e",".","c","o","m">>
TestNameDefault == <<"T","e","s","t"," ","U","s","e","r">>

\* request inputs explored
EmailInputs == { <<>>, <<"a","b">>, <<"a","@","b">>, <<"a","@","b",".","c">> }
NameInputs  == { <<>>, <<"A">> }
Methods == {"OPTIONS", "GET", "POST", "PUT"}
Paths == {"/subscribe", "/health", "/stats"}

\* every string over a letter, "@", "." and a space up to RegexLen characters
RegexAlphabet == {"a", "@", ".", " "}
RegexStrings == UNION {[1..n -> RegexAlphabet] : n \in 0..RegexLen}

Bodies == [name  : {Undefined} \cup {Str(n) : n \in NameInputs},
           email : {Undefined} \cup {Str(e) : e \in EmailInputs}]

\* ------------------------------------------------------ sequence table
emailSequence ==
    << [id |-> 1, delay |-> 0,                      template |-> "welcome-immediate"],
       [id |-> 2, delay |-> 24 * 60 * 60 * 1000,    template |-> "story-social-proof"],
       [id |-> 3, delay |-> 48 * 60 * 60 * 1000,    template |-> "advanced-technique"],
       [id |-> 4, delay |-> 72 * 60 * 60 * 1000,    template |-> "transformation-soft-pitch"],
       [id |-> 5, delay |-> 96 * 60 * 60 * 1000,    template |-> "final-value-cta"] >>

VARIABLES
    clock,            \* Date.now()
    subscribers,      \* this.subscribers: Map id -> subscriber record
    automationQueue,  \* this.automationQueue: array of queue items
    intervalId,       \* this.intervalId: 0 while undefined, else the last timer handle
    timers,           \* the interval timers that are armed in the event loop
    ticks,            \* the invocations of processAutomationQueue: locals and position
    response,         \* the answer to the last request
    returned,         \* history: the ids successful subscribe calls returned, in order
    sendCount,        \* history: sendEmail invocations per queue item
    failCount,        \* history: sendEmail invocations per queue item that rejected
    welcomeSent,      \* history: the ids the welcome mail was sent for, in order
    probe             \* the email string SpecRegex puts to the /subscribe endpoints

vars == <<clock, subscribers, automationQueue, intervalId, timers, ticks,
          response, returned, sendCount, failCount, welcomeSent, probe>>

Procs == 1..MaxTicks

IdleTick == [pc |-> "idle", now |-> 0, readyToSend |-> <<>>, pos |-> 0]

NoStats == <<>>       \* a response that carries no statistics
NoResponse == [status |-> 0, invalid |-> FALSE, body |-> "none", stats |-> NoStats]

\* ---------------------------------------------------- engine: subscribe
\* `${email}_${Date.now()}`: the text after the last "_" is the decimal
\* timestamp, so the string determines the pair and the pair the string.
SubscriberId(email, now) == <<email, now>>

NewSubscriber(email, firstName, now) ==
    [id           |-> SubscriberId(email, now),
     email        |-> email,
     firstName    |-> firstName,
     subscribedAt |-> now,
     emailsSent   |-> 0,
     status       |-> "active"]

\* a set that stores nothing
MapSetDropped(m, k, v) == m

\* Map.prototype.set
MapSet(m, k, v) == [x \in (DOMAIN m) \cup {k} |-> IF x = k THEN v ELSE m[x]]

QueueItem(subscriber, emailConfig) ==
    [subscriberId |-> subscriber.id,
     emailId      |-> emailConfig.id,
     templateName |-> emailConfig.template,
     scheduledFor |-> subscriber.subscribedAt + emailConfig.delay,
     status       |-> "pending",
     sentAt       |-> NoTime]

\* a schedule that does not skip the immediate entry
scheduleEveryEntry(subscriber) ==
    [k \in 1..Len(emailSequence) |-> QueueItem(subscriber, emailSequence[k])]

\* the items scheduleEmailSequence pushes: index 0 is skipped
scheduleEmailSequence(subscriber) ==
    [k \in 1..(Len(emailSequence) - 1) |-> QueueItem(subscriber, emailSequence[k + 1])]

\* a subscribe that returns the id without sending the welcome mail
subscribeNoWelcome(email, firstName) ==
    LET subscriber == NewSubscriber(email, firstName, clock)
        items      == scheduleEmailSequence(subscriber)
    IN  /\ subscribers' = MapSet(subscribers, subscriber.id, subscriber)
        /\ automationQueue' = automationQueue \o items
        /\ sendCount' = sendCount \o [k \in 1..Len(items) |-> 0]
        /\ failCount' = failCount \o [k \in 1..Len(items) |-> 0]
        /\ welcomeSent' = welcomeSent
        /\ returned' = Append(returned, subscriber.id)

\* subscribe(email, firstName): store, schedule, send the welcome mail, return the id
subscribe(email, firstName) ==
    LET subscriber == NewSubscriber(email, firstName, clock)
        items      == scheduleEmailSequence(subscriber)
    IN  /\ subscribers' = MapSet(subscribers, subscriber.id, subscriber)
        /\ automationQueue' = automationQueue \o items
        /\ sendCount' = sendCount \o [k \in 1..Len(items) |-> 0]
        /\ failCount' = failCount \o [k \in 1..Len(items) |-> 0]
        /\ welcomeSent' = Append(welcomeSent, subscriber.id)
        /\ returned' = Append(returned, subscriber.id)

\* subscribe(email, firstName) when the awaited welcome send rejects: the
\* record is stored and the sequence scheduled before the await, the
\* rejection leaves subscribe at the await and no id is returned
subscribeThrows(email, firstName) ==
    LET subscriber == NewSubscriber(email, firstName, clock)
        items      == scheduleEmailSequence(subscriber)
    IN  /\ subscribers' = MapSet(subscribers, subscriber.id, subscriber)
        /\ automationQueue' = automationQueue \o items
        /\ sendCount' = sendCount \o [k \in 1..Len(items) |-> 0]
        /\ failCount' = failCount \o [k \in 1..Len(items) |-> 0]
        /\ welcomeSent' = Append(welcomeSent, subscriber.id)
        /\ returned' = returned

\* --------------------------------------- engine: processAutomationQueue
\* filters that drop the status test, drop the due test, or exclude the boundary
IsReadyAnyStatus(item, now) == item.scheduledFor <= now
IsReadyAnyTime(item, now) == item.status # "sent"
IsReadyStrict(item, now) == item.scheduledFor < now /\ item.status # "sent"

\* item.scheduledFor <= now && item.status !== 'sent'
IsReady(item, now) == item.scheduledFor <= now /\ item.status # "sent"

\* this.automationQueue.filter(...), as the indices of the items kept, in order
readyToSend(queue, now) ==
    SelectSeq([i \in 1..Len(queue) |-> i], LAMBDA i : IsReady(queue[i], now))

\* a guard that only looks the subscriber up
DispatchGuardAnyStatus(subs, item) == item.subscriberId \in DOMAIN subs

\* subscriber && subscriber.status === 'active'
DispatchGuard(subs, item) ==
    /\ item.subscriberId \in DOMAIN subs
    /\ subs[item.subscriberId].status = "active"

\* the for-loop from position pos on: the first item that passes the guard,
\* or Len(ready) + 1 when the loop ends
RECURSIVE NextDispatch(_, _, _, _)
NextDispatch(subs, queue, ready, pos) ==
    IF pos > Len(ready) THEN pos
    ELSE IF DispatchGuard(subs, queue[ready[pos]]) THEN pos
    ELSE NextDispatch(subs, queue, ready, pos + 1)

\* run the loop of tick p from position pos until it ends or reaches the
\* await on sendEmail
RunLoop(p, subs, queue, now, ready, pos) ==
    LET k == NextDispatch(subs, queue, ready, pos)
    IN  IF k > Len(ready)
        THEN /\ ticks' = [ticks EXCEPT ![p] = IdleTick]
             /\ sendCount' = sendCount
        ELSE /\ ticks' = [ticks EXCEPT ![p] =
                    [pc |-> "await", now |-> now, readyToSend |-> ready, pos |-> k]]
             /\ sendCount' = [sendCount EXCEPT ![ready[k]] = @ + 1]

\* a timer fires: processAutomationQueue up to its first await
TickStart(p) ==
    /\ ticks[p].pc = "idle"
    /\ timers # {}
    /\ RunLoop(p, subscribers, automationQueue, clock,
               readyToSend(automationQueue, clock), 1)
    /\ UNCHANGED <<clock, subscribers, automationQueue, intervalId, timers,
                   response, returned, failCount, welcomeSent, probe>>

\* a resumption that marks every item of the snapshot, not only the one sent
TickResumeMarkAll(p) ==
    /\ ticks[p].pc = "await"
    /\ LET t     == ticks[p]
           q     == t.readyToSend[t.pos]
           sid   == automationQueue[q].subscriberId
           queue == [i \in 1..Len(automationQueue) |->
                       IF i \in {t.readyToSend[k] : k \in 1..Len(t.readyToSend)}
                       THEN [automationQueue[i] EXCEPT !.status = "sent", !.sentAt = t.now]
                       ELSE automationQueue[i]]
           subs  == [subscribers EXCEPT ![sid].emailsSent = @ + 1]
       IN  /\ automationQueue' = queue
           /\ subscribers' = subs
           /\ RunLoop(p, subs, queue, t.now, t.readyToSend, t.pos + 1)
    /\ UNCHANGED <<clock, intervalId, timers, response, returned, failCount,
                   welcomeSent, probe>>

\* a resumption that stamps sentAt with the time of the resumption
TickResumeStamped(p) ==
    /\ ticks[p].pc = "await"
    /\ LET t     == ticks[p]
           q     == t.readyToSend[t.pos]
           sid   == automationQueue[q].subscriberId
           queue == [automationQueue EXCEPT ![q].status = "sent", ![q].sentAt = clock]
           subs  == [subscribers EXCEPT ![sid].emailsSent = @ + 1]
       IN  /\ automationQueue' = queue
           /\ subscribers' = subs
           /\ RunLoop(p, subs, queue, t.now, t.readyToSend, t.pos + 1)
    /\ UNCHANGED <<clock, intervalId, timers, response, returned, failCount,
                   welcomeSent, probe>>

\* sendEmail has settled: mark the item, count it, go on with the loop
TickResume(p) ==
    /\ ticks[p].pc = "await"
    /\ LET t     == ticks[p]
           q     == t.readyToSend[t.pos]
           sid   == automationQueue[q].subscriberId
           queue == [automationQueue EXCEPT ![q].status = "sent", ![q].sentAt = t.now]
           subs  == [subscribers EXCEPT ![sid].emailsSent = @ + 1]
       IN  /\ automationQueue' = queue
           /\ subscribers' = subs
           /\ RunLoop(p, subs, queue, t.now, t.readyToSend, t.pos + 1)
    /\ UNCHANGED <<clock, intervalId, timers, response, returned, failCount,
                   welcomeSent, probe>>

\* a rejection that marks the item sent before it leaves the loop
TickFailMarked(p) ==
    /\ ticks[p].pc = "await"
    /\ LET q == ticks[p].readyToSend[ticks[p].pos]
       IN  /\ failCount' = [failCount EXCEPT ![q] = @ + 1]
           /\ automationQueue' =
                 [automationQueue EXCEPT ![q].status = "sent", ![q].sentAt = ticks[p].now]
    /\ ticks' = [ticks EXCEPT ![p] = IdleTick]
    /\ UNCHANGED <<clock, subscribers, intervalId, timers, response,
                   returned, sendCount, welcomeSent, probe>>

\* sendEmail has rejected: the await throws, nothing in the loop catches it,
\* the invocation ends there with the item and the rest of its snapshot
\* untouched
TickFail(p) ==
    /\ ticks[p].pc = "await"
    /\ failCount' = [failCount EXCEPT ![ticks[p].readyToSend[ticks[p].pos]] = @ + 1]
    /\ ticks' = [ticks EXCEPT ![p] = IdleTick]
    /\ UNCHANGED <<clock, subscribers, automationQueue, intervalId, timers,
                   response, returned, sendCount, welcomeSent, probe>>

\* ---------------------------------------------------- engine: getStats
getStats(subs, queue) ==
    [totalSubscribers     |-> Cardinality(DOMAIN subs),
     activeSubscribers    |-> Cardinality({id \in DOMAIN subs : subs[id].status = "active"}),
     totalEmailsScheduled |-> Len(queue),
     emailsSent           |-> Cardinality({i \in 1..Len(queue) : queue[i].status = "sent"}),
     openRate             |-> "~35%",
     clickRate            |-> "~8%",
     conversionRate       |-> "~12%"]

\* ------------------------------------------------- engine: start, stop
start ==
    /\ intervalId' = intervalId + 1
    /\ timers' = timers \cup {intervalId + 1}
    /\ UNCHANGED <<clock, subscribers, automationQueue, ticks, response,
                   returned, sendCount,
                   failCount, welcomeSent, probe>>

stop ==
    /\ timers' = IF intervalId # 0 THEN timers \ {intervalId} ELSE timers
    /\ UNCHANGED <<clock, subscribers, automationQueue, intervalId, ticks,
                   response, returned, sendCount,
                   failCount, welcomeSent, probe>>

\* ------------------------------------------------------------ requests
\* what the specification calls an invalid subscription: a name or email
\* that is empty or missing, an email without "@", or without "." after it
NoDotAfterAt(s) ==
    ~ \E i \in 1..Len(s) : \E j \in (i + 1)..Len(s) : s[i] = "@" /\ s[j] = "."
InvalidInput(name, email) ==
    Falsy(name) \/ Falsy(email) \/ NoDotAfterAt(email.s)

Respond(code, name, email) ==
    response' = [status |-> code, invalid |-> InvalidInput(name, email),
                 body |-> "json", stats |-> NoStats]

Rejected ==
    UNCHANGED <<clock, subscribers, automationQueue, intervalId, timers, ticks,
                returned, sendCount, failCount, welcomeSent, probe>>

\* POST /subscribe, serverless handler
handler(body) ==
    IF Falsy(body.name) \/ Falsy(body.email)
    THEN Respond(400, body.name, body.email) /\ Rejected
    ELSE IF ~emailRegexTest(body.email.s)
    THEN Respond(400, body.name, body.email) /\ Rejected
    ELSE /\ subscribe(body.email.s, body.name.s)
         /\ Respond(200, body.name, body.email)
         /\ UNCHANGED <<clock, intervalId, timers, ticks, probe>>

\* POST /subscribe, serverless handler, when subscribe throws: the catch
\* block answers 500
handlerCatch(body) ==
    /\ ~Falsy(body.name) /\ ~Falsy(body.email)
    /\ emailRegexTest(body.email.s)
    /\ subscribeThrows(body.email.s, body.name.s)
    /\ Respond(500, body.name, body.email)
    /\ UNCHANGED <<clock, intervalId, timers, ticks, probe>>

\* POST /subscribe, Express server
ExpressSubscribe(body) ==
    IF Falsy(body.name) \/ Falsy(body.email)
    THEN Respond(400, body.name, body.email) /\ Rejected
    ELSE IF ~emailRegexTest(body.email.s)
    THEN Respond(400, body.name, body.email) /\ Rejected
    ELSE /\ subscribe(body.email.s, body.name.s)
         /\ Respond(200, body.name, body.email)
         /\ UNCHANGED <<clock, intervalId, timers, ticks, probe>>

\* POST /test-email, Express server
TestEmail(body, production) ==
    IF production
    THEN /\ response' = [status |-> 403, invalid |-> FALSE, body |-> "json",
                          stats |-> NoStats]
         /\ Rejected
    ELSE LET email == IF body.email.def THEN body.email.s ELSE TestEmailDefault
             name  == IF body.name.def THEN body.name.s ELSE TestNameDefault
         IN  /\ subscribe(email, name)
             /\ Respond(200, Str(name), Str(email))
             /\ UNCHANGED <<clock, intervalId, timers, ticks, probe>>

\* a response that does not come from the subscription path
Answer(code, content) ==
    /\ response' = [status |-> code, invalid |-> FALSE, body |-> content,
                    stats |-> NoStats]
    /\ Rejected

\* 200 with the statistics of an engine in the body
AnswerStats(content, subs, queue) ==
    /\ response' = [status |-> 200, invalid |-> FALSE, body |-> content,
                    stats |-> getStats(subs, queue)]
    /\ Rejected

\* the engine a serverless module that only reports builds for itself on its
\* first request: its own Map and queue, which no handler of that module
\* subscribes to
moduleEngine == [subscribers |-> <<>>, automationQueue |-> <<>>]

\* the serverless function behind /subscribe, for any method
subscribeHandler(method, body) ==
    IF method = "OPTIONS" THEN Answer(200, "empty")
    ELSE IF method # "POST" THEN Answer(405, "json")
    ELSE handler(body)

\* the serverless function behind /health
healthHandler(method) ==
    IF method = "OPTIONS" THEN Answer(200, "empty")
    ELSE IF method # "GET" THEN Answer(405, "json")
    ELSE AnswerStats("health", moduleEngine.subscribers, moduleEngine.automationQueue)

\* the serverless function behind /stats
statsHandler(method) ==
    IF method = "OPTIONS" THEN Answer(200, "empty")
    ELSE IF method # "GET" THEN Answer(405, "json")
    ELSE AnswerStats("stats", moduleEngine.subscribers, moduleEngine.automationQueue)

\* the Express server: cors() ends an OPTIONS request itself with 204 and no
\* body, a route is matched by path and method, and a request that matches
\* no route gets the 404 page of Express
ExpressRequest(path, method, body) ==
    IF method = "OPTIONS" THEN Answer(204, "empty")
    ELSE IF path = "/subscribe" /\ method = "POST" THEN ExpressSubscribe(body)
    ELSE IF path = "/health" /\ method = "GET"
    THEN AnswerStats("health", subscribers, automationQueue)
    ELSE IF path = "/stats" /\ method = "GET"
    THEN AnswerStats("stats", subscribers, automationQueue)
    ELSE Answer(404, "html")

\* a caller of the engine itself, as the command line interface is
DirectSubscribe(email, name) ==
    /\ subscribe(email, name)
    /\ Respond(200, Str(name), Str(email))
    /\ UNCHANGED <<clock, intervalId, timers, ticks, probe>>

\* --------------------------------------------------------- environment
ClockSteps == {Second, Day}

\* Time passes.  A send settles within seconds: no invocation stays suspended
\* at its await across a step of a day.
AdvanceClock(d) ==
    /\ d >= Day => \A p \in Procs : ticks[p].pc = "idle"
    /\ clock' = clock + d
    /\ UNCHANGED <<subscribers, automationQueue, intervalId, timers, ticks,
                   response, returned, sendCount,
                   failCount, welcomeSent, probe>>

\* the unsubscribe the engine leaves to its embedder: the record's status
Unsubscribe(id) ==
    /\ subscribers[id].status = "active"
    /\ subscribers' = [subscribers EXCEPT ![id].status = "unsubscribed"]
    /\ UNCHANGED <<clock, automationQueue, intervalId, timers, ticks, response,
                   returned, sendCount,
                   failCount, welcomeSent, probe>>

\* --------------------------------------------------------------- system
Init ==
    /\ clock = 0
    /\ subscribers = <<>>
    /\ automationQueue = <<>>
    /\ intervalId = 0
    /\ timers = {}
    /\ ticks = [p \in Procs |-> IdleTick]
    /\ response = NoResponse
    /\ returned = <<>>
    /\ sendCount = <<>>
    /\ failCount = <<>>
    /\ welcomeSent = <<>>
    /\ probe = <<>>

\* the part of the state space a specification explores
Within(maxSubscribers, maxDays, maxSeconds, maxStarts) ==
    /\ Len(returned) <= maxSubscribers
    /\ clock \div Day <= maxDays
    /\ (clock % Day) \div Second <= maxSeconds
    /\ intervalId <= maxStarts

\* Spec: the engine behind one subscribe endpoint, over the whole sequence
Bounded == Within(MaxSubscribers, MaxDays, MaxSeconds, MaxStarts)

Next ==
    \/ \E body \in Bodies : handler(body) /\ Bounded'
    \/ \E p \in Procs : TickStart(p)
    \/ \E p \in Procs : TickResume(p)
    \/ start /\ Bounded'
    \/ stop
    \/ \E d \in ClockSteps : AdvanceClock(d) /\ Bounded'
    \/ \E id \in DOMAIN subscribers : Unsubscribe(id)

Spec == Init /\ [][Next]_vars

\* SpecPair: every entry point that reaches subscribe, with the loop running
PairBounded == Within(PairSubscribers, PairDays, PairSeconds, PairStarts)

NextPair ==
    \/ \E body \in Bodies : handler(body) /\ PairBounded'
    \/ \E body \in Bodies : ExpressSubscribe(body) /\ PairBounded'
    \/ \E body \in Bodies, production \in BOOLEAN :
          TestEmail(body, production) /\ PairBounded'
    \/ \E e \in EmailInputs \cup {TestEmailDefault},
          n \in NameInputs \cup {TestNameDefault} :
          DirectSubscribe(e, n) /\ PairBounded'
    \/ \E p \in Procs : TickStart(p)
    \/ \E p \in Procs : TickResume(p)
    \/ start /\ PairBounded'
    \/ \E d \in ClockSteps : AdvanceClock(d) /\ PairBounded'

SpecPair == Init /\ [][NextPair]_vars

\* SpecFail: the engine behind the subscribe endpoint with a transport whose
\* sends may reject
FailBounded ==
    /\ Within(FailCalls, FailDays, FailSeconds, FailStarts)
    /\ Len(welcomeSent) <= FailCalls
    /\ \A i \in 1..Len(sendCount) : sendCount[i] <= FailSends

NextFail ==
    \/ \E body \in Bodies : handler(body) /\ FailBounded'
    \/ \E body \in Bodies : handlerCatch(body) /\ FailBounded'
    \/ \E p \in Procs : TickStart(p) /\ FailBounded'
    \/ \E p \in Procs : TickResume(p) /\ FailBounded'
    \/ \E p \in Procs : TickFail(p)
    \/ start /\ FailBounded'
    \/ \E d \in ClockSteps : AdvanceClock(d) /\ FailBounded'

SpecFail == Init /\ [][NextFail]_vars

\* SpecLoop: the loop started and stopped any number of times
LoopBounded == Within(LoopSubscribers, LoopDays, LoopSeconds, LoopStarts)

NextLoop ==
    \/ \E body \in Bodies : handler(body) /\ LoopBounded'
    \/ \E p \in Procs : TickStart(p)
    \/ \E p \in Procs : TickResume(p)
    \/ start /\ LoopBounded'
    \/ stop
    \/ \E d \in ClockSteps : AdvanceClock(d) /\ LoopBounded'

SpecLoop == Init /\ [][NextLoop]_vars

\* SpecHttp: requests of any method on the serverless functions and on the
\* Express server
HttpBounded == Within(HttpSubscribers, HttpDays, HttpSeconds, HttpStarts)

NextHttp ==
    \/ \E method \in Methods, body \in Bodies :
          subscribeHandler(method, body) /\ HttpBounded'
    \/ \E method \in Methods : healthHandler(method)
    \/ \E method \in Methods : statsHandler(method)
    \/ \E path \in Paths, method \in Methods, body \in Bodies :
          ExpressRequest(path, method, body) /\ HttpBounded'
    \/ \E p \in Procs : TickStart(p)
    \/ \E p \in Procs : TickResume(p)
    \/ start /\ HttpBounded'
    \/ \E d \in ClockSteps : AdvanceClock(d) /\ HttpBounded'

SpecHttp == Init /\ [][NextHttp]_vars

\* SpecRegex: the two /subscribe endpoints on every email string up to
\* RegexLen characters, and the engine after them
RegexBounded == Within(RegexSubscribers, RegexDays, RegexSeconds, RegexStarts)

\* the engine as constructed, and one email string for the requests to carry
InitRegex ==
    /\ clock = 0
    /\ subscribers = <<>>
    /\ automationQueue = <<>>
    /\ intervalId = 0
    /\ timers = {}
    /\ ticks = [p \in Procs |-> IdleTick]
    /\ response = NoResponse
    /\ returned = <<>>
    /\ sendCount = <<>>
    /\ failCount = <<>>
    /\ welcomeSent = <<>>
    /\ probe \in RegexStrings

ProbeBody == [name |-> Str(<<"A">>), email |-> Str(probe)]

NextRegex ==
    \/ handler(ProbeBody) /\ RegexBounded'
    \/ ExpressSubscribe(ProbeBody) /\ RegexBounded'
    \/ \E p \in Procs : TickStart(p)
    \/ \E p \in Procs : TickResume(p)
    \/ start /\ RegexBounded'
    \/ \E d \in ClockSteps : AdvanceClock(d) /\ RegexBounded'

SpecRegex == InitRegex /\ [][NextRegex]_vars

\* SpecLive: the loop under fair scheduling.  An armed timer keeps firing,
\* so an invocation that has something to send does start, and a send that
\* is awaited settles; the transport may reject a send, but not forever.
LiveBounded ==
    /\ Within(LiveSubscribers, LiveDays, LiveSeconds, LiveStarts)
    /\ \A i \in 1..Len(failCount) : failCount[i] <= LiveFails

NextLive ==
    \/ \E body \in Bodies : handler(body) /\ LiveBounded'
    \/ \E p \in Procs : TickStart(p)
    \/ \E p \in Procs : TickResume(p)
    \/ \E p \in Procs : TickFail(p) /\ LiveBounded'
    \/ start /\ LiveBounded'
    \/ stop
    \/ \E d \in ClockSteps : AdvanceClock(d) /\ LiveBounded'
    \/ \E id \in DOMAIN subscribers : Unsubscribe(id)

SpecLive ==
    /\ Init
    /\ [][NextLive]_vars
    /\ \A p \in Procs : WF_vars(TickStart(p))
    /\ \A p \in Procs : WF_vars(TickResume(p))

\* SpecOrder: two subscribers followed until two of their follow-ups are
\* due, with a transport that may reject
OrderBounded ==
    /\ Within(OrderSubscribers, OrderDays, OrderSeconds, OrderStarts)
    /\ \A i \in 1..Len(failCount) : failCount[i] <= OrderFails

NextOrder ==
    \/ \E body \in Bodies : handler(body) /\ OrderBounded'
    \/ \E p \in Procs : TickStart(p)
    \/ \E p \in Procs : TickResume(p)
    \/ \E p \in Procs : TickFail(p) /\ OrderBounded'
    \/ start /\ OrderBounded'
    \/ \E d \in ClockSteps : AdvanceClock(d) /\ OrderBounded'

SpecOrder == Init /\ [][NextOrder]_vars

\* ================================================================ claims
Range(f) == {f[x] : x \in DOMAIN f}
Hours(h) == h * 60 * 60 * 1000

\* the invocations that are suspended at the await on sendEmail
InFlight == {p \in Procs : ticks[p].pc = "await"}
\* the queue item tick p is sending
Sending(p) == ticks[p].readyToSend[ticks[p].pos]
\* tick p begins in this step and reaches a send
Begins(p) == ticks[p].pc = "idle" /\ ticks'[p].pc = "await"

\* C1: a successful subscribe at time T appends exactly four queue items for
\* the new subscriber, entries 2..5 in order, due at T+24h, T+48h, T+72h and
\* T+96h, all pending, and leaves the items already queued as they were.
C1_FollowUpsScheduled ==
    [][Len(returned') = Len(returned) + 1 =>
        LET id == returned'[Len(returned')]
            n  == Len(automationQueue)
        IN  /\ subscribers'[id].subscribedAt = clock
            /\ Len(automationQueue') = n + 4
            /\ SubSeq(automationQueue', 1, n) = automationQueue
            /\ \A k \in 1..4 :
                 /\ automationQueue'[n + k].subscriberId = id
                 /\ automationQueue'[n + k].emailId = k + 1
                 /\ automationQueue'[n + k].templateName = emailSequence[k + 1].template
                 /\ automationQueue'[n + k].scheduledFor = clock + Hours(24 * k)
                 /\ automationQueue'[n + k].status = "pending"
                 /\ automationQueue'[n + k].sentAt = NoTime]_vars

\* a subscriber created a day after the start, with its four items queued
C1_Witness ==
    /\ Len(returned) >= 1
    /\ returned[1][2] = Day
    /\ Len(automationQueue) >= 4
    /\ automationQueue[4].scheduledFor = Day + Hours(96)
    /\ automationQueue[4].status = "pending"

\* C2: once an item is sent it stays sent; a tick that begins afterwards,
\* at whatever clock value, does not select it; and a further send of it can
\* only come from a tick that was already suspended with the item in the
\* snapshot it took before, never from a later tick.
C2_SentOnce ==
    [][\A i \in 1..Len(automationQueue) :
        automationQueue[i].status = "sent" =>
          /\ automationQueue'[i].status = "sent"
          /\ i \notin Range(readyToSend(automationQueue', clock'))
          /\ \A p \in Procs :
               /\ Begins(p) => i \notin Range(ticks'[p].readyToSend)
               /\ (ticks[p].pc = "await" /\ ticks'[p].pc = "await") =>
                    /\ ticks'[p].readyToSend = ticks[p].readyToSend
                    /\ ticks'[p].now = ticks[p].now
          /\ sendCount'[i] > sendCount[i] =>
               \E p \in Procs :
                 /\ ticks[p].pc = "await"
                 /\ ticks'[p].pc = "await"
                 /\ ticks'[p].readyToSend[ticks'[p].pos] = i]_vars

\* an item was sent, and a tick that began at a later clock value is under way
C2_Witness ==
    \E i \in 1..Len(automationQueue) : \E p \in InFlight :
        /\ automationQueue[i].status = "sent"
        /\ ticks[p].now > automationQueue[i].sentAt
        /\ i \notin Range(ticks[p].readyToSend)

\* C3: sendEmail is invoked at most once per queue item, under every
\* interleaving of ticks.
C3_AtMostOneSend ==
    \A i \in 1..Len(sendCount) : sendCount[i] <= 1

\* C4: an item is sent only if its subscriber is active at the moment the
\* loop reaches it, and an item is marked sent, or its subscriber's counter
\* incremented, only by the tick that passed that test and sent it.
C4_ActiveAtDispatch ==
    [][/\ \A i \in 1..Len(sendCount) :
            sendCount'[i] > sendCount[i] =>
              /\ automationQueue[i].subscriberId \in DOMAIN subscribers
              /\ subscribers[automationQueue[i].subscriberId].status = "active"
       /\ \A i \in 1..Len(automationQueue) :
            automationQueue'[i] # automationQueue[i] =>
              \E p \in InFlight : Sending(p) = i
       /\ \A id \in DOMAIN subscribers :
            subscribers'[id].emailsSent # subscribers[id].emailsSent =>
              \E p \in InFlight : automationQueue[Sending(p)].subscriberId = id]_vars

\* a tick took its snapshot with two due items, sent the first, and found the
\* subscriber unsubscribed when it reached the second: the second stays as it was
C4_Witness ==
    \E i, j \in 1..Len(automationQueue) :
        /\ i < j
        /\ automationQueue[i].subscriberId = automationQueue[j].subscriberId
        /\ subscribers[automationQueue[j].subscriberId].status = "unsubscribed"
        /\ automationQueue[i].status = "sent"
        /\ automationQueue[j].status = "pending"
        /\ automationQueue[j].scheduledFor <= automationQueue[i].sentAt
        /\ sendCount[j] = 0
        /\ subscribers[automationQueue[j].subscriberId].emailsSent = 1
        /\ InFlight = {}

\* C5: what a tick selects for time now holds no item due later than now and
\* no item that is sent, both for the snapshot a beginning tick takes and for
\* the filter applied in any reachable state.
C5_SelectedDueAndUnsent ==
    [][/\ \A i \in Range(readyToSend(automationQueue, clock)) :
            /\ automationQueue[i].scheduledFor <= clock
            /\ automationQueue[i].status # "sent"
       /\ \A p \in Procs : Begins(p) =>
            /\ ticks'[p].now = clock
            /\ \A i \in Range(ticks'[p].readyToSend) :
                 /\ automationQueue[i].scheduledFor <= clock
                 /\ automationQueue[i].status # "sent"]_vars

\* a tick is under way whose snapshot left out an item not yet due and an
\* item already sent
C5_Witness ==
    \E p \in InFlight : \E i, j \in 1..Len(automationQueue) :
        /\ automationQueue[i].status = "sent"
        /\ automationQueue[i].sentAt < ticks[p].now
        /\ automationQueue[j].scheduledFor > ticks[p].now
        /\ ticks[p].readyToSend # <<>>
        /\ {i, j} \cap Range(ticks[p].readyToSend) = {}

\* the queue items of subscriber id, and the entry ids of a set of items
ItemsOf(id) == {i \in 1..Len(automationQueue) : automationQueue[i].subscriberId = id}
EntriesOf(S) == {automationQueue[i].emailId : i \in S}
\* the queue items the k-th successful subscribe pushed
ItemsOfCall(k) ==
    LET n == Len(emailSequence) - 1 IN {i \in 1..Len(automationQueue) : (k - 1) * n < i /\ i <= k * n}

\* C6: what a tick selects for time now holds every item that is not sent
\* and is due at or before now; for a subscriber created at T with nothing
\* sent yet, the selection at T+24h+1s holds, of the items created with it,
\* exactly the entry-2 item, and at T+120h+1s all four.
C6_SelectsEveryDueItem ==
    [][/\ \A i \in 1..Len(automationQueue) :
            (automationQueue[i].status = "pending" /\ automationQueue[i].scheduledFor <= clock)
              => /\ i \in Range(readyToSend(automationQueue, clock))
                 /\ \A p \in Procs : Begins(p) => i \in Range(ticks'[p].readyToSend)
       /\ \A k \in 1..Len(returned) :
            LET T        == subscribers[returned[k]].subscribedAt
                selected == ItemsOfCall(k) \cap Range(readyToSend(automationQueue, clock))
            IN  (\A i \in ItemsOfCall(k) : automationQueue[i].status = "pending") =>
                  /\ clock = T + Hours(24) + 1000 =>
                       /\ EntriesOf(selected) = {2}
                       /\ Cardinality(selected) = 1
                  /\ clock = T + Hours(120) + 1000 =>
                       /\ EntriesOf(selected) = {2, 3, 4, 5}
                       /\ Cardinality(selected) = 4]_vars

\* a tick that began at T+120h+1s with nothing sent before holds all four items
C6_Witness ==
    \E p \in InFlight : \E id \in DOMAIN subscribers :
        /\ ticks[p].now = subscribers[id].subscribedAt + Hours(120) + 1000
        /\ Len(ticks[p].readyToSend) = 4
        /\ \A i \in ItemsOf(id) : automationQueue[i].status = "pending"

\* an item is selected at the very millisecond it is due
C6_WitnessBoundary ==
    \E p \in InFlight :
        automationQueue[Sending(p)].scheduledFor = ticks[p].now

\* C7: the ids successful subscribe calls return are pairwise different, and
\* each call adds one record to the store: after N calls it holds N records,
\* each created active with emailsSent = 0.
C7_UniqueIds ==
    [][/\ \A i, j \in 1..Len(returned') : i # j => returned'[i] # returned'[j]
       /\ Cardinality(DOMAIN subscribers') = Len(returned')
       /\ Len(returned') = Len(returned) + 1 =>
            LET id == returned'[Len(returned')]
            IN  /\ id \notin DOMAIN subscribers
                /\ subscribers'[id].status = "active"
                /\ subscribers'[id].emailsSent = 0]_vars

\* the delay of the sequence entry that names template t
OffsetOf(t) ==
    emailSequence[CHOOSE k \in 1..Len(emailSequence) : emailSequence[k].template = t].delay

\* C8: for every subscriber id and template there is at most one queue item,
\* and it is due at the stored record's subscribedAt plus the template's offset.
C8_OneTaskPerTemplate ==
    /\ \A i, j \in 1..Len(automationQueue) :
         (/\ i # j
          /\ automationQueue[i].subscriberId = automationQueue[j].subscriberId)
           => automationQueue[i].templateName # automationQueue[j].templateName
    /\ \A i \in 1..Len(automationQueue) :
         /\ automationQueue[i].subscriberId \in DOMAIN subscribers
         /\ automationQueue[i].scheduledFor =
              subscribers[automationQueue[i].subscriberId].subscribedAt
                + OffsetOf(automationQueue[i].templateName)

\* C9: a request with an empty or missing name or email, or an email without
\* "@" or without "." after it, is answered 400 and leaves the store and the
\* queue as they were, on every entry point.
C9_InvalidRejected ==
    [][((response' # response \/ returned' # returned) /\ response'.invalid) =>
         /\ response'.status = 400
         /\ UNCHANGED <<subscribers, automationQueue>>]_vars

\* C10: every subscriber's emailsSent equals the number of the queue items
\* that reference the subscriber and are sent.
C10_CounterMatchesSent ==
    \A id \in DOMAIN subscribers :
        subscribers[id].emailsSent =
            Cardinality({i \in ItemsOf(id) : automationQueue[i].status = "sent"})

C12_FailureStaysInTick ==
    [][\A p \in Procs :
         (/\ ticks[p].pc = "await"
          /\ ticks'[p] # ticks[p]
          /\ failCount'[Sending(p)] > failCount[Sending(p)]) =>
            LET t == ticks[p]
                k == NextDispatch(subscribers, automationQueue, t.readyToSend, t.pos + 1)
            IN  k <= Len(t.readyToSend) =>
                  /\ ticks'[p].pc = "await"
                  /\ ticks'[p].now = t.now
                  /\ ticks'[p].readyToSend = t.readyToSend
                  /\ ticks'[p].pos = k]_vars

\* C13: a call of stop() that clears a timer leaves no timer armed, and a
\* tick begins only while a timer is armed.
C13_StoppedAfterStop ==
    [][/\ (intervalId' = intervalId /\ timers' # timers) => timers' = {}
       /\ \A p \in Procs :
            (ticks[p].pc = "idle" /\ ticks'[p] # ticks[p]) => timers # {}]_vars

\* C14: at most one recurring timer is armed at any time.
C14_OneTimer == Cardinality(timers) <= 1

\* C15: a subscribe request that is answered 500 after its welcome send
\* rejected leaves the subscriber store and the queue as they were.
C15_NoPartialState ==
    [][(welcomeSent' # welcomeSent /\ response'.status = 500) =>
         UNCHANGED <<subscribers, automationQueue>>]_vars

\* C16: no queue item stands for the first, zero-delay entry of the
\* sequence, and the step in which a subscribe returns its id is the step
\* that sends the welcome mail for that id, once.
C16_WelcomeSentOnce ==
    [][/\ \A i \in 1..Len(automationQueue') :
            /\ automationQueue'[i].emailId # emailSequence[1].id
            /\ automationQueue'[i].templateName # emailSequence[1].template
            /\ automationQueue'[i].scheduledFor #
                 subscribers'[automationQueue'[i].subscriberId].subscribedAt
                   + emailSequence[1].delay
       /\ Len(returned') = Len(returned) + 1 =>
            welcomeSent' = Append(welcomeSent, returned'[Len(returned')])
       /\ Len(returned') = Len(returned) => welcomeSent' = welcomeSent]_vars

\* two subscribes have returned, each after its own welcome send, and a
\* follow-up has been dispatched from the queue
C16_Witness ==
    /\ Len(returned) = 2
    /\ welcomeSent = returned
    /\ Len(automationQueue) = 2 * (Len(emailSequence) - 1)
    /\ \E i \in 1..Len(automationQueue) : automationQueue[i].status = "sent"

\* the method an endpoint serves
OwnMethod(path) == IF path = "/subscribe" THEN "POST" ELSE "GET"

\* the answer C17 asks for when the method is not the endpoint's own
MethodAnswer(method) ==
    /\ IF method = "OPTIONS"
       THEN response'.status = 200 /\ response'.body = "empty"
       ELSE response'.status = 405
    /\ UNCHANGED <<subscribers, automationQueue>>

\* C17: on /subscribe, /health and /stats, on the serverless functions and
\* on the Express server, a request with method OPTIONS is answered 200 with
\* an empty body and a request with another method than the endpoint's own
\* is answered 405, and neither changes the subscriber store or the queue.
C17_MethodsAnswered ==
    [][\A method \in Methods, body \in Bodies :
         /\ (method # "POST" /\ subscribeHandler(method, body)) => MethodAnswer(method)
         /\ (method # "GET" /\ healthHandler(method)) => MethodAnswer(method)
         /\ (method # "GET" /\ statsHandler(method)) => MethodAnswer(method)
         /\ \A path \in Paths :
              (method # OwnMethod(path) /\ ExpressRequest(path, method, body)) =>
                MethodAnswer(method)]_vars

\* the serverless functions alone answer as C17 says
C17_ServerlessMethods ==
    [][\A method \in Methods, body \in Bodies :
         /\ (method # "POST" /\ subscribeHandler(method, body)) => MethodAnswer(method)
         /\ (method # "GET" /\ healthHandler(method)) => MethodAnswer(method)
         /\ (method # "GET" /\ statsHandler(method)) => MethodAnswer(method)]_vars

\* C18: every queue item names a subscriber id that is a key of the
\* subscriber store, in every state, and no step removes a key of the store.
C18_TasksReferenceSubscribers ==
    [][/\ \A i \in 1..Len(automationQueue') :
            automationQueue'[i].subscriberId \in DOMAIN subscribers'
       /\ DOMAIN subscribers \subseteq DOMAIN subscribers']_vars

\* the queue holds the items of two stored subscribers, one of them sent
C18_Witness ==
    /\ Cardinality({automationQueue[i].subscriberId : i \in 1..Len(automationQueue)}) = 2
    /\ \A i \in 1..Len(automationQueue) :
         automationQueue[i].subscriberId \in DOMAIN subscribers
    /\ \E i \in 1..Len(automationQueue) : automationQueue[i].status = "sent"

\* C19: no step removes a queue item or changes it other than from pending
\* to sent; a pending item has no sentAt, the step that marks it sent sets
\* sentAt, and the sentAt of a sent item never changes.
C19_StatusMonotone ==
    [][/\ Len(automationQueue') >= Len(automationQueue)
       /\ \A i \in 1..Len(automationQueue) :
            /\ automationQueue[i].status = "sent" =>
                 /\ automationQueue'[i].status = "sent"
                 /\ automationQueue'[i].sentAt = automationQueue[i].sentAt
            /\ automationQueue'[i].status = "pending" =>
                 automationQueue'[i].sentAt = NoTime
            /\ automationQueue'[i].status = "sent" =>
                 automationQueue'[i].sentAt # NoTime]_vars

\* C19 without the clause on sentAt: items are never removed and a sent item
\* stays sent
C19_StatusOnly ==
    [][/\ Len(automationQueue') >= Len(automationQueue)
       /\ \A i \in 1..Len(automationQueue) :
            automationQueue[i].status = "sent" => automationQueue'[i].status = "sent"]_vars

\* C20: once a subscriber record exists under an id, later steps keep the
\* id in the store and keep the record's email, firstName and subscribedAt.
C20_RecordIdentityFixed ==
    [][\A id \in DOMAIN subscribers :
         /\ id \in DOMAIN subscribers'
         /\ subscribers'[id].email = subscribers[id].email
         /\ subscribers'[id].firstName = subscribers[id].firstName
         /\ subscribers'[id].subscribedAt = subscribers[id].subscribedAt]_vars

\* C21: a step of a tick keeps the queue's length and the store's keys; it
\* changes no queue item but the one whose send has settled, and of that one
\* only status and sentAt; it changes no subscriber record but that item's,
\* and of that one only emailsSent; it sends no item whose subscriber is not
\* active; and a tick that starts changes neither store nor queue.
C21_TickFrame ==
    [][\A p \in Procs : ticks'[p] # ticks[p] =>
         /\ Len(automationQueue') = Len(automationQueue)
         /\ DOMAIN subscribers' = DOMAIN subscribers
         /\ ticks[p].pc = "idle" => UNCHANGED <<subscribers, automationQueue>>
         /\ \A i \in 1..Len(automationQueue) :
              /\ \/ ticks[p].pc = "await" /\ i = Sending(p)
                 \/ automationQueue'[i] = automationQueue[i]
              /\ [automationQueue'[i] EXCEPT !.status = automationQueue[i].status,
                                             !.sentAt = automationQueue[i].sentAt]
                   = automationQueue[i]
              /\ ~DispatchGuard(subscribers, automationQueue[i]) =>
                   sendCount'[i] = sendCount[i]
         /\ \A id \in DOMAIN subscribers :
              /\ \/ ticks[p].pc = "await" /\ id = automationQueue[Sending(p)].subscriberId
                 \/ subscribers'[id] = subscribers[id]
              /\ [subscribers'[id] EXCEPT !.emailsSent = subscribers[id].emailsSent]
                   = subscribers[id]]_vars

\* a tick has marked one item sent and has left a later item of its snapshot
\* pending and unsent, because the subscriber was no longer active
C21_Witness ==
    /\ InFlight = {}
    /\ \E i, j \in 1..Len(automationQueue) :
         /\ automationQueue[i].status = "sent"
         /\ automationQueue[j].status = "pending"
         /\ automationQueue[j].scheduledFor <= automationQueue[i].sentAt
         /\ sendCount[j] = 0
         /\ automationQueue[i].subscriberId = automationQueue[j].subscriberId
         /\ subscribers[automationQueue[j].subscriberId].status # "active"

\* the positions of "@" in s
AtSigns(s) == {i \in 1..Len(s) : s[i] = "@"}
\* no character of s is white space
NoWhiteSpace(s) == \A k \in 1..Len(s) : s[k] \notin WhiteSpace

\* exactly one "@", with a non-empty run free of white space on each side,
\* and a "." somewhere after the "@"
OneAtAndDotAfter(s) ==
    /\ Cardinality(AtSigns(s)) = 1
    /\ NoWhiteSpace(s)
    /\ \E i \in AtSigns(s) :
         /\ 1 < i /\ i < Len(s)
         /\ \E j \in (i + 1)..Len(s) : s[j] = "."

\* ... where the "." is neither the character right after the "@" nor the
\* last character of the string
OneAtAndInnerDot(s) ==
    /\ Cardinality(AtSigns(s)) = 1
    /\ NoWhiteSpace(s)
    /\ \E i \in AtSigns(s) :
         /\ 1 < i
         /\ \E j \in (i + 2)..(Len(s) - 1) : s[j] = "."

\* C22 (as stated): either /subscribe endpoint accepts an email exactly when
\* it has exactly one "@" with non-white-space on both sides and a "."
\* somewhere after the "@".
C22_OneAtAndDot ==
    [][(handler(ProbeBody) \/ ExpressSubscribe(ProbeBody)) =>
         (response'.status = 200 <=> OneAtAndDotAfter(probe))]_vars

\* C22 (amended): either /subscribe endpoint accepts an email exactly when it
\* has no white space, exactly one "@" that is not its first character, and
\* after the "@" a "." with at least one character between the two and at
\* least one character after it.
C22_OneAtAndInnerDot ==
    [][(handler(ProbeBody) \/ ExpressSubscribe(ProbeBody)) =>
         /\ response'.status \in {200, 400}
         /\ response'.status = 200 <=> OneAtAndInnerDot(probe)]_vars

\* an address of RegexLen characters with a "." before the "@" has been
\* accepted and stored
C22_Witness ==
    /\ response.status = 200
    /\ Len(probe) = RegexLen
    /\ probe[1] = "."
    /\ \E id \in DOMAIN subscribers : subscribers[id].email = probe

\* queue item i is due and pending, a timer is armed and the subscriber is active
DuePending(i) ==
    /\ i <= Len(automationQueue)
    /\ automationQueue[i].status = "pending"
    /\ automationQueue[i].scheduledFor <= clock
    /\ timers # {}
    /\ subscribers[automationQueue[i].subscriberId].status = "active"

\* queue item i is sent, or the loop was stopped, or the subscriber is no
\* longer active
SentOrExcused(i) ==
    /\ i <= Len(automationQueue)
    /\ \/ automationQueue[i].status = "sent"
       \/ timers = {}
       \/ subscribers[automationQueue[i].subscriberId].status # "active"

C24_SentAtAfterDue ==
    [][/\ \A i \in 1..Len(automationQueue') :
            automationQueue'[i].status = "sent" =>
              automationQueue'[i].sentAt >= automationQueue'[i].scheduledFor
       /\ \A p \in Procs :
            /\ Begins(p) => ticks'[p].now = clock
            /\ (ticks[p].pc = "await" /\ ticks'[p].pc = "await") =>
                 /\ ticks'[p].now = ticks[p].now
                 /\ \A k \in 1..Len(ticks'[p].readyToSend) :
                      automationQueue'[ticks'[p].readyToSend[k]].scheduledFor
                        <= ticks'[p].now
            /\ (ticks[p].pc = "await" /\ ticks'[p] # ticks[p]
                  /\ failCount' = failCount) =>
                 /\ automationQueue'[Sending(p)].status = "sent"
                 /\ automationQueue'[Sending(p)].sentAt = ticks[p].now]_vars

\* an item was marked sent by a tick that started one second after it was
\* due, and the clock has moved on since the tick started
C24_Witness ==
    \E i \in 1..Len(automationQueue) :
        /\ automationQueue[i].status = "sent"
        /\ automationQueue[i].sentAt = automationQueue[i].scheduledFor + Second
        /\ clock > automationQueue[i].sentAt

\* C25: in no state is the item of entry k+1 of a subscriber id sent while
\* an item of entry k of that id is pending.
C25_SentInSequenceOrder ==
    \A i, j \in 1..Len(automationQueue) :
        (/\ automationQueue[i].subscriberId = automationQueue[j].subscriberId
         /\ automationQueue[j].emailId = automationQueue[i].emailId + 1
         /\ automationQueue[j].status = "sent") =>
           automationQueue[i].status = "sent"

\* the same for the items one subscribe call pushed
C25_SentInOrderPerCall ==
    \A k \in 1..Len(returned) : \A i, j \in ItemsOfCall(k) :
        (automationQueue[j].emailId = automationQueue[i].emailId + 1
           /\ automationQueue[j].status = "sent") =>
             automationQueue[i].status = "sent"

\* C26: an answer of GET /stats or GET /health reports every subscribe that
\* has succeeded before it: totalSubscribers is their number and
\* totalEmailsScheduled four times their number.
C26_StatsFollowSubscribes ==
    (response.status = 200 /\ response.body \in {"stats", "health"}) =>
        /\ response.stats.totalSubscribers = Len(returned)
        /\ response.stats.totalEmailsScheduled =
             (Len(emailSequence) - 1) * Len(returned)

\* the same for the Express server alone, whose routes share one engine
C26_ExpressStatsFollow ==
    [][\A path \in {"/stats", "/health"}, body \in Bodies :
         ExpressRequest(path, "GET", body) =>
           /\ response'.stats.totalSubscribers = Len(returned)
           /\ response'.stats.totalEmailsScheduled =
                (Len(emailSequence) - 1) * Len(returned)]_vars

\* the sum of the emailsSent counters of the records under the ids in S
RECURSIVE SumEmailsSent(_, _)
SumEmailsSent(subs, S) ==
    IF S = {} THEN 0
    ELSE LET id == CHOOSE x \in S : TRUE
         IN  subs[id].emailsSent + SumEmailsSent(subs, S \ {id})

\* C27: in every state getStats() reports totalEmailsScheduled = 4 *
\* totalSubscribers, emailsSent <= totalEmailsScheduled, activeSubscribers <=
\* totalSubscribers, and emailsSent equal to the sum of the emailsSent
\* counters of the stored subscribers.
C27_StatsConsistent ==
    LET stats == getStats(subscribers, automationQueue)
    IN  /\ stats.totalEmailsScheduled = (Len(emailSequence) - 1) * stats.totalSubscribers
        /\ stats.emailsSent <= stats.totalEmailsScheduled
        /\ stats.activeSubscribers <= stats.totalSubscribers
        /\ stats.emailsSent = SumEmailsSent(subscribers, DOMAIN subscribers)

\* the two inequalities of C27 alone
C27_StatsBounds ==
    LET stats == getStats(subscribers, automationQueue)
    IN  /\ stats.emailsSent <= stats.totalEmailsScheduled
        /\ stats.activeSubscribers <= stats.totalSubscribers

\* a request that answers with statistics leaves the engine as it was
C27_StatsReadOnly ==
    [][(response' # response /\ response'.body \in {"stats", "health"}) =>
         UNCHANGED <<subscribers, automationQueue, intervalId, timers, ticks>>]_vars
====
